---- MODULE Spec2Model ----
(***************************************************************************)
(* Resumable batch processing of PDF documents (pdf_processor.py, main.py) *)
(* as a state machine: the CLI invocation, the category runs in their four *)
(* modes (full, smart resume, simple resume, bounded parallel), the        *)
(* per-item protocol upload -> extract -> persist -> release, and the      *)
(* output directory the Completion Ledger is derived from.                 *)
(***************************************************************************)
EXTENDS Integers, Sequences, FiniteSets, TLC

\* ------------------------------------------------------------------ bounds
MaxDocs == 3        \* documents per category
MaxStart == 2       \* largest --start-from
MaxWorkers == 2     \* largest --workers
MaxRuns == 2        \* CLI invocations in a row
MaxAdds == 1        \* artifacts that appear between two merges

\* Two of the keys of SECTION_DESCRIPTIONS.
Cats == {"2.3", "2.4"}
\* sorted(sections) of find_available_sections: the order of the keys.
CatOrder == <<"2.3", "2.4">>
\* parser default of --workers
DefaultWorkers == 3
\* an input directory that does not exist
NoDir == 0 - 1

MaxPos == MaxStart + MaxDocs - 1
Threads == 0..MaxWorkers          \* 0: the calling thread, 1..: pool workers

\* ------------------------------------------------- identifiers and ledger
RECURSIVE Digits(_)
\* str(n) for n >= 0, as a sequence of decimal digits
Digits(n) == IF n < 10 THEN <<n>> ELSE Digits(n \div 10) \o <<n % 10>>

RECURSIVE ZeroFill(_, _)
ZeroFill(ds, width) == IF Len(ds) >= width THEN ds ELSE ZeroFill(<<0>> \o ds, width)

\* a bug: the field keeps three digits and drops what is in front of them
Pad3Truncated(sequence_id) ==
    LET ds == ZeroFill(Digits(sequence_id), 3)
    IN SubSeq(ds, Len(ds) - 2, Len(ds))

\* f"{sequence_id:03d}": at least three characters, the sign of a negative
\* number ("-", code point 45) among them: "001", "1000", "000", "-01"
Pad3(sequence_id) ==
    IF sequence_id < 0
    THEN <<45>> \o ZeroFill(Digits(0 - sequence_id), 2)
    ELSE ZeroFill(Digits(sequence_id), 3)

\* f"{section_code}-{sequence_id:03d}": the stem "<prefix>-<suffix>"
PaperId(section_code, sequence_id) ==
    [prefix |-> section_code, suffix |-> Pad3(sequence_id)]

\* A character of a name is a decimal digit, held by its value 0..9, or any
\* other character, held by its code point: "A" 65, "a" 97, "b" 98, "c" 99.
IsDigit(ch) == ch \in 0..9

\* ord(ch)
Code(ch) == IF IsDigit(ch) THEN 48 + ch ELSE ch

\* ord(ch.lower())
LowerCode(ch) == IF Code(ch) \in 65..90 THEN Code(ch) + 32 ELSE Code(ch)

RECURSIVE ParseInt(_)
\* int(parts[1]) of a digit sequence
ParseInt(ds) == IF Len(ds) = 0 THEN 0
                ELSE 10 * ParseInt(SubSeq(ds, 1, Len(ds) - 1)) + ds[Len(ds)]

\* the stems of the artifacts the processor writes
Stems(c) == {PaperId(c, p) : p \in 1..MaxPos}

\* stems with a non-numeric suffix somebody left in the directory:
\* "<c>-Abc" and "<c>-ab1"
Malformed(c) == {[prefix |-> c, suffix |-> <<65, 98, 99>>],
                 [prefix |-> c, suffix |-> <<97, 98, 1>>]}

\* the *.json stems a category's output directory can hold
Names(c) == Stems(c) \cup Malformed(c)

FileStates == {"absent", "partial", "complete"}

\* output_dir.glob("*.json"): the files that exist, whatever they hold
Glob(dir) == {s \in DOMAIN dir : dir[s] # "absent"}

\* int(parts[1]) does not raise ValueError
ParsesAsInt(ds) == ds # <<>> /\ \A k \in 1..Len(ds) : IsDigit(ds[k])

\* a bug: the characters that are no digits are dropped before int()
SequenceNumsLenient(s) == {ParseInt(SelectSeq(s.suffix, IsDigit))}

\* what one file adds to the set: its number, or nothing when int() raises
\* ("except (ValueError, IndexError): continue")
SequenceNums(s) == IF ParsesAsInt(s.suffix) THEN {ParseInt(s.suffix)} ELSE {}

\* a bug: the ledger finds nothing, whatever the directory holds
LedgerEmpty(dir) == {}

\* get_already_processed_files: the sequence numbers parsed from the names
get_already_processed_files(dir) == UNION {SequenceNums(s) : s \in Glob(dir)}

\* processed_files of process_pdfs_in_directory_with_resume: the stems
processed_stems(dir) == Glob(dir)

\* ------------------------------------------------------------------ state
VARIABLES
    inputs,        \* [Cats -> NoDir or the number of PDFs], sorted snapshot 1..n
    outdir,        \* [Cats -> [Stems -> FileStates]]: data/output/<cat>/
    args,          \* the arguments of the current CLI invocation
    mpc,           \* main(): "idle", "dispatch", "running", "exit", "crashed"
    todo,          \* sections main() still has to hand to process_section
    all_success,   \* main()'s all_success / success
    exit_code,     \* the exit code of the last invocation, -1 while running
    invocations,   \* CLI invocations started so far
    run,           \* locals of the processing call in progress
    th,            \* per thread: the item in process_single_pdf
    queue,         \* submitted futures no worker has taken yet
    completed,     \* finished futures as_completed has not yielded yet
    attempted,     \* sections process_section was called for, this invocation
    section_result,\* [Cats -> "none" | "ok" | "failed"], this invocation
    startdir,      \* the output directory of run.cat when the run started
    prev,          \* what the previous category run of this model ended with
    runB,          \* another, concurrently running run: its ledger scan
    env,           \* what the invocation finds: prompt.md, the service client
    mg,            \* merge_json_outputs.py: the merged files and the bulk merge
    ls,            \* two directory listings of one input directory, and their plans
    asg,           \* two positions of a category and the identifiers assigned to them
    rp             \* a response text of the service and what the parsing made of it

vars == <<inputs, outdir, args, mpc, todo, all_success, exit_code, invocations,
          run, th, queue, completed, attempted, section_result, startdir, prev,
          runB, env, mg, ls, asg, rp>>

IdleItem == [doc |-> 0, pos |-> 0, step |-> "idle", file_id |-> "none",
             prompt |-> "unset", json_data |-> "none", saved |-> FALSE,
             ret |-> FALSE, rel |-> 0, deleted |-> FALSE,
             ups |-> 0, reqs |-> 0, writes |-> 0]

NoRun == [mode |-> "none", cat |-> "", pc |-> "none", n |-> 0, start_from |-> 1,
          workers |-> 0, i |-> 1, collected |-> 0, already_processed |-> {}, processed_files |-> {},
          success |-> TRUE, has_total |-> FALSE, error |-> "",
          processed |-> 0, failed |-> 0, skipped |-> 0, files |-> <<>>,
          slept |-> {}, rate |-> 0 - 1, summaries |-> 0]

NoArgs == [cmd |-> "none", section |-> "", use_resume |-> FALSE,
           resume_method |-> "smart", parallel |-> FALSE,
           workers |-> DefaultWorkers, start_from |-> 1]

NoPrev == [mode |-> "none", cat |-> "", start_from |-> 1, processed |-> 0,
           failed |-> 0, skipped |-> 0, n |-> 0, pc |-> "none"]

\* run B before its scan
NoScan == [scanned |-> FALSE, cat |-> "", ledger |-> {}, stems |-> {}, partial |-> {}]

EmptyDir(c) == [s \in Names(c) |-> "absent"]

\* prompt.md exists and PDFProcessor(API_KEY) succeeds
GoodEnv == [template |-> TRUE, init_ok |-> TRUE]

\* the content of a <category>_merged.json
NoFile == [exists |-> FALSE, data |-> <<>>]

\* merge_json_outputs.py was not run: no <category>_merged.json anywhere
NoMerge == [pc |-> "idle", todo |-> <<>>, merged |-> [c \in Cats |-> NoFile],
            before |-> [c \in Cats |-> NoFile], ret |-> 0 - 1,
            merged_any |-> FALSE,
            reported |-> [kind |-> "merged", stem |-> [prefix |-> "", suffix |-> <<>>]],
            calls |-> 0, adds |-> 0]

\* no listing taken
NoListing == [a |-> <<>>, b |-> <<>>, plan_a |-> <<>>, plan_b |-> <<>>,
              done_a |-> FALSE, done_b |-> FALSE]

\* no identifier was asked for
NoAssign == [cat |-> "", p |-> 0, q |-> 0,
             id_p |-> [prefix |-> "", suffix |-> <<>>],
             id_q |-> [prefix |-> "", suffix |-> <<>>], done |-> FALSE]

\* nothing is running: no invocation, no category run, no item, no scan
InitProgram ==
    /\ args = NoArgs
    /\ mpc = "idle"
    /\ todo = <<>>
    /\ all_success = TRUE
    /\ exit_code = 0 - 1
    /\ invocations = 0
    /\ run = NoRun
    /\ th = [t \in Threads |-> IdleItem]
    /\ queue = <<>>
    /\ completed = {}
    /\ attempted = {}
    /\ section_result = [c \in Cats |-> "none"]
    /\ startdir = EmptyDir("2.3")
    /\ prev = NoPrev
    /\ runB = NoScan

\* no response was received
NoResponse == [payload |-> <<>>, wrap |-> "bare", newline |-> FALSE,
               text |-> <<>>, json_data |-> [ok |-> FALSE, value |-> <<>>],
               outcome |-> "unset", done |-> FALSE]

InitControl == InitProgram /\ asg = NoAssign /\ rp = NoResponse

Init ==
    \* "2.3" is the category under study; "2.4" is a fresh one-document one
    /\ inputs \in [Cats -> 0..MaxDocs]
    /\ inputs["2.4"] = 1
    /\ outdir \in [Cats -> UNION {[Names(c) -> {"absent", "complete"}] : c \in Cats}]
    /\ DOMAIN outdir["2.3"] = Names("2.3")
    /\ \A s \in Malformed("2.3") : outdir["2.3"][s] = "absent"
    /\ outdir["2.4"] = EmptyDir("2.4")
    /\ InitControl
    /\ env = GoodEnv
    /\ mg = NoMerge
    /\ ls = NoListing

\* ------------------------------------------------------------ main.py: CLI
\* the flag combinations of --use-resume, --resume-method and --parallel
ModeFlags ==
    {[use_resume |-> FALSE, resume_method |-> "smart", parallel |-> FALSE],
     [use_resume |-> TRUE, resume_method |-> "smart", parallel |-> FALSE],
     [use_resume |-> TRUE, resume_method |-> "simple", parallel |-> FALSE],
     [use_resume |-> FALSE, resume_method |-> "smart", parallel |-> TRUE]}

ArgSet ==
    {[cmd |-> cmd, section |-> sec, use_resume |-> f.use_resume,
      resume_method |-> f.resume_method, parallel |-> f.parallel,
      workers |-> w, start_from |-> sf] :
        cmd \in {"section", "all"}, sec \in Cats, f \in ModeFlags,
        w \in 0..MaxWorkers \cup {DefaultWorkers}, sf \in 1..MaxStart}

\* the use_resume process_section is called with: the flag --use-resume, and
\* True from the command --resume S
UseResume(a) == a.cmd = "resume" \/ a.use_resume

\* what main() never reads is fixed, so that equal invocations are one state
WellFormedArgs(a) ==
    /\ a.cmd = "all" => a.section = "2.3" /\ a.start_from = 1
    /\ ~a.parallel => a.workers = DefaultWorkers
    /\ a.parallel => a.workers <= MaxWorkers
    /\ (a.parallel /\ ~UseResume(a)) => a.start_from = 1

\* "start_from = args.start_from or 1": no flag (None) and 0 give 1
StartFrom(a) == IF a.start_from = 0 THEN 1 ELSE a.start_from

\* a bug: use_resume is tested before parallel
ModeOfResumeFirst(a) ==
    IF UseResume(a)
    THEN (IF a.resume_method = "simple" THEN "simple" ELSE "smart")
    ELSE IF a.parallel THEN "parallel" ELSE "full"

\* process_section's choice of the processing function
ModeOf(a) == IF a.parallel THEN "parallel"
             ELSE IF UseResume(a)
                  THEN (IF a.resume_method = "simple" THEN "simple" ELSE "smart")
                  ELSE "full"

\* find_available_sections: the known sections whose directory holds a PDF
find_available_sections == SelectSeq(CatOrder, LAMBDA c : inputs[c] >= 1)

\* what is kept of a category run once it is over
Digest(r) == [mode |-> r.mode, cat |-> r.cat, start_from |-> r.start_from,
              processed |-> r.processed, failed |-> r.failed,
              skipped |-> r.skipped, n |-> r.n, pc |-> r.pc]

\* main(): parse the arguments and dispatch the command; the invocation is
\* one of those the scenario allows
MainStartWith(allowed, runs) ==
    /\ mpc \in {"idle", "exit", "crashed"}
    /\ invocations < runs
    /\ \E a \in allowed :
        /\ WellFormedArgs(a)
        /\ args' = a
        /\ IF ~env.init_ok
              \/ (a.cmd \in {"section", "resume"} /\ a.section \notin Cats)
           THEN \* PDFProcessor(API_KEY) raised, or "Unknown section": return 1
                /\ mpc' = "exit"
                /\ exit_code' = 1
                /\ todo' = <<>>
           ELSE IF a.cmd = "all"
           THEN IF find_available_sections = <<>>
                THEN /\ mpc' = "exit"
                     /\ exit_code' = 1
                     /\ todo' = <<>>
                ELSE /\ mpc' = "dispatch"
                     /\ exit_code' = 0 - 1
                     /\ todo' = find_available_sections
           ELSE /\ mpc' = "dispatch"
                /\ exit_code' = 0 - 1
                /\ todo' = <<a.section>>
    /\ invocations' = invocations + 1
    /\ all_success' = TRUE
    /\ attempted' = {}
    /\ section_result' = [c \in Cats |-> "none"]
    /\ th' = [t \in Threads |-> IdleItem]
    /\ queue' = <<>>
    /\ completed' = {}
    /\ run' = NoRun
    /\ prev' = IF run.mode # "none" THEN Digest(run) ELSE prev
    /\ UNCHANGED <<inputs, outdir, startdir, runB, env, mg, ls, asg, rp>>

\* the results dict a processing function starts from, after its own checks
StartRun(mode, c, sf, w) ==
    LET base == [NoRun EXCEPT !.mode = mode, !.cat = c, !.n = inputs[c],
                              !.start_from = sf, !.workers = w]
    IN IF inputs[c] = 0
       THEN \* "No PDF files found": a dict without total_files
            [base EXCEPT !.pc = "returned"]
       ELSE IF mode = "parallel"
       THEN IF w < 1
            THEN \* ThreadPoolExecutor raises ValueError, caught at the end
                 [base EXCEPT !.pc = "returned", !.has_total = TRUE,
                              !.success = FALSE]
            ELSE [base EXCEPT !.pc = "collect", !.has_total = TRUE]
       ELSE [base EXCEPT
               !.pc = "loop", !.has_total = TRUE,
               !.already_processed =
                   IF mode = "smart" THEN get_already_processed_files(outdir[c])
                   ELSE {},
               !.processed_files =
                   IF mode = "simple" THEN processed_stems(outdir[c]) ELSE {}]

\* a bug: every submitted call is given the same idx
SubmittedSame(n) == [k \in 1..n |-> 1]

\* the idx of the futures in submission order: enumerate(pdf_files, 1)
Submitted(n) == [k \in 1..n |-> k]

\* process_section: the directory check and the call of the processing function
SectionStart ==
    /\ mpc = "dispatch"
    /\ todo # <<>>
    /\ LET c == Head(todo)
           sf == IF args.cmd = "all" THEN 1 ELSE StartFrom(args)
       IN /\ attempted' = attempted \cup {c}
          /\ IF inputs[c] = NoDir
             THEN /\ section_result' = [section_result EXCEPT ![c] = "failed"]
                  /\ all_success' = FALSE
                  /\ todo' = Tail(todo)
                  /\ UNCHANGED <<mpc, run, startdir, queue>>
             ELSE /\ run' = StartRun(ModeOf(args), c, sf, args.workers)
                  /\ queue' = IF run'.pc = "collect"
                              THEN Submitted(inputs[c]) ELSE <<>>
                  /\ startdir' = outdir[c]
                  /\ mpc' = "running"
                  /\ UNCHANGED <<section_result, all_success, todo>>
    /\ UNCHANGED <<inputs, outdir, args, exit_code, invocations, th, completed,
                   prev, runB, env, mg, ls, asg, rp>>

\* process_section after the call: the report and its return value
SectionReturn ==
    /\ mpc = "running"
    /\ run.pc = "returned"
    /\ IF run.success /\ ~run.has_total
       THEN \* results['total_files'] raises KeyError
            /\ mpc' = "crashed"
            /\ exit_code' = 1
            /\ run' = [run EXCEPT !.pc = "raised"]
            /\ UNCHANGED <<section_result, all_success, todo, prev>>
       ELSE /\ mpc' = "dispatch"
            /\ run' = NoRun
            /\ prev' = Digest(run)
            /\ section_result' = [section_result EXCEPT
                   ![run.cat] = IF run.success THEN "ok" ELSE "failed"]
            /\ all_success' = (all_success /\ run.success)
            /\ todo' = Tail(todo)
            /\ UNCHANGED exit_code
    /\ UNCHANGED <<inputs, outdir, args, invocations, th, queue, completed,
                   attempted, startdir, runB, env, mg, ls, asg, rp>>

\* main(): the exit code
MainExit ==
    /\ mpc = "dispatch"
    /\ todo = <<>>
    /\ mpc' = "exit"
    /\ exit_code' = IF all_success THEN 0 ELSE 1
    /\ UNCHANGED <<inputs, outdir, args, todo, all_success, invocations, run, th,
                   queue, completed, attempted, section_result, startdir, prev,
                   runB, env, mg, ls, asg, rp>>

\* --------------------------------------- pdf_processor.py: process_single_pdf
\* what upload_pdf_to_gemini returns: a file id, an empty name, or None
\* (file not found, or an exception caught inside)
UploadOutcomes == {"h", "empty", "none"}
\* what process_pdf_with_gemini returns: a parsed payload, a parsed but empty
\* payload ({} or []), or None (no text, unparsable, or an exception caught)
ExtractOutcomes == {"ok", "empty", "none"}

\* a bug: the tests read "is not None", so an empty value passes
TruthyNotNone(v) == v # "none"

\* Python truth of a value: None and the empty value are false
Truthy(v) == v \notin {"none", "empty"}

\* a bug: the finally clause deletes without the "if file_id:" test
ReleaseDueAlways(file_id) == TRUE

\* the finally clause of process_single_pdf: "if file_id:"
ReleaseDue(file_id) == Truthy(file_id)

\* where process_single_pdf goes when a step returns
AfterReturn(file_id) == IF ReleaseDue(file_id) THEN "release" ELSE "done"

Running == mpc = "running" /\ run.pc \in {"loop", "collect", "single"}

\* Step 1: file_id = self.upload_pdf_to_gemini(pdf_path)
Upload(t) ==
    /\ Running
    /\ th[t].step = "upload"
    /\ \E r \in UploadOutcomes :
        th' = [th EXCEPT ![t] = [@ EXCEPT
                 !.file_id = r, !.ups = @ + 1,
                 !.step = IF Truthy(r) THEN "extract" ELSE AfterReturn(r)]]
    /\ UNCHANGED <<inputs, outdir, args, mpc, todo, all_success, exit_code,
                   invocations, run, queue, completed, attempted, section_result,
                   startdir, prev, runB, env, mg, ls, asg, rp>>

\* generate_prompt: the template of prompt.md around the two ids, or "" when
\* prompt.md does not exist
generate_prompt(section_code, sequence_id) ==
    IF env.template THEN "paper_prompt" ELSE ""

\* Step 2: json_data = self.process_pdf_with_gemini(file_id, ...): the request
\* goes out with whatever generate_prompt gave
Extract(t) ==
    /\ Running
    /\ th[t].step = "extract"
    /\ \E r \in ExtractOutcomes :
        th' = [th EXCEPT ![t] = [@ EXCEPT
                 !.prompt = generate_prompt(run.cat, th[t].pos),
                 !.reqs = @ + 1, !.json_data = r,
                 !.step = IF Truthy(r) THEN "save_open"
                          ELSE AfterReturn(th[t].file_id)]]
    /\ UNCHANGED <<inputs, outdir, args, mpc, todo, all_success, exit_code,
                   invocations, run, queue, completed, attempted, section_result,
                   startdir, prev, runB, env, mg, ls, asg, rp>>

\* Step 3, save_json_output up to open(output_path, 'w'): the file is created
\* or truncated, or mkdir/open raises and save_json_output returns False
SaveOpen(t) ==
    /\ Running
    /\ th[t].step = "save_open"
    /\ \E ok \in BOOLEAN :
        IF ok
        THEN /\ outdir' = [outdir EXCEPT
                   ![run.cat][PaperId(run.cat, th[t].pos)] = "partial"]
             /\ th' = [th EXCEPT ![t] = [@ EXCEPT !.step = "save_write",
                                                    !.writes = @ + 1]]
        ELSE /\ th' = [th EXCEPT ![t] = [@ EXCEPT
                   !.step = AfterReturn(th[t].file_id)]]
             /\ UNCHANGED outdir
    /\ UNCHANGED <<inputs, args, mpc, todo, all_success, exit_code,
                   invocations, run, queue, completed, attempted, section_result,
                   startdir, prev, runB, env, mg, ls, asg, rp>>

\* Step 3, save_json_output from json.dump to the close of the file: the
\* artifact is complete, or the write raises and leaves what was written
SaveWrite(t) ==
    /\ Running
    /\ th[t].step = "save_write"
    /\ \E ok \in BOOLEAN :
        /\ outdir' = [outdir EXCEPT
              ![run.cat][PaperId(run.cat, th[t].pos)] =
                  IF ok THEN "complete" ELSE "partial"]
        /\ th' = [th EXCEPT ![t] = [@ EXCEPT
              !.saved = ok, !.ret = ok,
              !.step = AfterReturn(th[t].file_id)]]
    /\ UNCHANGED <<inputs, args, mpc, todo, all_success, exit_code,
                   invocations, run, queue, completed, attempted, section_result,
                   startdir, prev, runB, env, mg, ls, asg, rp>>

\* a bug: the value of delete_file_from_gemini becomes part of the item's result
AfterReleaseFlips(item, ok) ==
    [item EXCEPT !.rel = @ + 1, !.deleted = ok, !.step = "done",
                 !.ret = item.ret /\ ok]

\* the item after the finally clause: the value delete_file_from_gemini
\* returns is dropped, the return value of the try block stands
AfterRelease(item, ok) ==
    [item EXCEPT !.rel = @ + 1, !.deleted = ok, !.step = "done"]

\* Step 4 (finally): self.delete_file_from_gemini(file_id), which may fail
Release(t) ==
    /\ Running
    /\ th[t].step = "release"
    /\ \E ok \in BOOLEAN :
        th' = [th EXCEPT ![t] = AfterRelease(th[t], ok)]
    /\ UNCHANGED <<inputs, outdir, args, mpc, todo, all_success, exit_code,
                   invocations, run, queue, completed, attempted, section_result,
                   startdir, prev, runB, env, mg, ls, asg, rp>>

\* the per-item result record of the loops and of the parallel wrapper
FileResult(section_code, item) ==
    [filename |-> item.doc, sequence_id |-> item.pos,
     paper_id |-> PaperId(section_code, item.pos),
     success |-> item.ret,
     error |-> IF item.ret THEN "" ELSE "Processing failed"]

\* a bug: the record is put in front of the list
RecordedFirst(r, rec) ==
    [r EXCEPT !.files = <<rec>> \o @,
              !.processed = IF rec.success THEN @ + 1 ELSE @,
              !.failed = IF rec.success THEN @ ELSE @ + 1]

\* results after one more record
Recorded(r, rec) ==
    [r EXCEPT !.files = Append(@, rec),
              !.processed = IF rec.success THEN @ + 1 ELSE @,
              !.failed = IF rec.success THEN @ ELSE @ + 1]

\* ------------------------------------------------- the sequential loops
Sequential(mode) == mode \in {"full", "smart", "simple"}

\* a bug: simple resume numbers the documents from 1, like the other modes
PositionOfNatural(mode, i, start_from) == i

\* the position enumerate() gives the document at sorted index i (1-based):
\* enumerate(pdf_files, 1), and enumerate(pdf_files, start_from) in simple resume
PositionOf(mode, i, start_from) ==
    IF mode = "simple" THEN start_from + i - 1 ELSE i

\* a bug: the start point itself is skipped ("<=" for "<")
SkipsOffByOne(r, pos) ==
    CASE r.mode = "smart" ->
            pos <= r.start_from \/ pos \in r.already_processed
      [] r.mode = "simple" ->
            PaperId(r.cat, pos) \in r.processed_files \/ pos < r.start_from
      [] OTHER -> FALSE

\* the skip tests at the head of the loop bodies
Skips(r, pos) ==
    CASE r.mode = "smart" ->
            pos < r.start_from \/ pos \in r.already_processed
      [] r.mode = "simple" ->
            PaperId(r.cat, pos) \in r.processed_files \/ pos < r.start_from
      [] OTHER -> FALSE

\* the head of one loop iteration: skip the position, or start its item
SeqNext ==
    /\ mpc = "running"
    /\ run.pc = "loop"
    /\ run.i <= run.n
    /\ th[0].step = "idle"
    /\ LET pos == PositionOf(run.mode, run.i, run.start_from)
       IN IF Skips(run, pos)
          THEN /\ run' = [run EXCEPT !.skipped = @ + 1, !.i = @ + 1]
               /\ UNCHANGED th
          ELSE /\ th' = [th EXCEPT ![0] = [IdleItem EXCEPT
                     !.doc = run.i, !.pos = pos, !.step = "upload"]]
               /\ UNCHANGED run
    /\ UNCHANGED <<inputs, outdir, args, mpc, todo, all_success, exit_code,
                   invocations, queue, completed, attempted, section_result,
                   startdir, prev, runB, env, mg, ls, asg, rp>>

\* a bug: the loop is left at the first failed item
NextIndexBreak(r, rec) == IF rec.success THEN r.i + 1 ELSE r.n + 1

\* the loop index after an item: the for loop goes on whatever the item gave
NextIndex(r, rec) == r.i + 1

\* the test before time.sleep(1): "idx < len(pdf_files)", and in simple resume
\* "idx < len(pdf_files) + start_from - 1"
DelayDue(r, idx) ==
    IF r.mode = "simple" THEN idx < r.n + r.start_from - 1 ELSE idx < r.n

\* the rest of the iteration: the record is appended, the counters move, the
\* loop sleeps if the test says so
SeqRecord ==
    /\ mpc = "running"
    /\ run.pc = "loop"
    /\ th[0].step = "done"
    /\ LET rec == FileResult(run.cat, th[0])
       IN run' = [Recorded(run, rec) EXCEPT
                    !.i = NextIndex(run, rec),
                    !.slept = IF DelayDue(run, th[0].pos)
                              THEN @ \cup {th[0].pos} ELSE @]
    /\ th' = [th EXCEPT ![0] = IdleItem]
    /\ UNCHANGED <<inputs, outdir, args, mpc, todo, all_success, exit_code,
                   invocations, queue, completed, attempted, section_result,
                   startdir, prev, runB, env, mg, ls, asg, rp>>

\* ------------------------------------------------------ process_pdfs_parallel
\* a bug: the pool starts a thread for every submitted item
PoolSizeUnbounded(r) == r.n

\* ThreadPoolExecutor(max_workers=max_workers): the threads the pool may start
PoolSize(r) == r.workers

\* a bug: the future a thread took stays in the work queue and is run again
PendingKept(q) == q

\* the pool's work queue after a thread took its first future
Pending(q) == Tail(q)

\* a worker thread of the pool takes the next submitted future; the pool's
\* threads are interchangeable, so it is the idle one of the lowest number
WorkerTake(t) ==
    /\ mpc = "running"
    /\ run.pc = "collect"
    /\ t >= 1
    /\ t <= PoolSize(run)
    /\ queue # <<>>
    /\ th[t].step = "idle"
    /\ \A u \in 1..(t - 1) : th[u].step # "idle"
    /\ th' = [th EXCEPT ![t] = [IdleItem EXCEPT
                !.doc = Head(queue), !.pos = Head(queue), !.step = "upload"]]
    /\ queue' = Pending(queue)
    /\ UNCHANGED <<inputs, outdir, args, mpc, todo, all_success, exit_code,
                   invocations, run, completed, attempted, section_result,
                   startdir, prev, runB, env, mg, ls, asg, rp>>

\* a bug: the wrapper lets a failed item's exception out of the future
WrapperOutcomeRaises(section_code, item) ==
    [raised |-> ~item.ret, pos |-> item.pos, rec |-> FileResult(section_code, item)]

\* what a future holds when process_single_pdf_with_logging ends: the wrapper
\* catches what the item raised and returns the record
WrapperOutcome(section_code, item) ==
    [raised |-> FALSE, pos |-> item.pos, rec |-> FileResult(section_code, item)]

\* the worker's future is done
WorkerDone(t) ==
    /\ mpc = "running"
    /\ run.pc = "collect"
    /\ t >= 1
    /\ th[t].step = "done"
    /\ completed' = completed \cup {WrapperOutcome(run.cat, th[t])}
    /\ th' = [th EXCEPT ![t] = IdleItem]
    /\ UNCHANGED <<inputs, outdir, args, mpc, todo, all_success, exit_code,
                   invocations, run, queue, attempted, section_result,
                   startdir, prev, runB, env, mg, ls, asg, rp>>

\* one turn of "for future in as_completed(future_to_pdf)"
Collect ==
    /\ mpc = "running"
    /\ run.pc = "collect"
    /\ \E f \in completed :
        /\ completed' = completed \ {f}
        /\ run' = IF f.raised
                  THEN [run EXCEPT !.failed = @ + 1, !.collected = @ + 1]
                  ELSE [Recorded(run, f.rec) EXCEPT !.collected = @ + 1]
    /\ UNCHANGED <<inputs, outdir, args, mpc, todo, all_success, exit_code,
                   invocations, th, queue, attempted, section_result,
                   startdir, prev, runB, env, mg, ls, asg, rp>>

\* ------------------------------------------------------ the end of a run
\* the success rate of the final log message; raised: ZeroDivisionError
SuccessRate(r) ==
    LET den == CASE r.mode = "smart" -> r.n - r.skipped
                 [] r.mode = "simple" -> r.processed + r.failed
                 [] OTHER -> r.n
    IN IF r.mode = "simple" /\ den = 0
       THEN [raised |-> FALSE, value |-> 0]
       ELSE IF den = 0
       THEN [raised |-> TRUE, value |-> 0]
       ELSE [raised |-> FALSE, value |-> (r.processed * 100) \div den]

LoopOver ==
    \/ run.pc = "loop" /\ run.i > run.n /\ th[0].step = "idle"
    \/ run.pc = "collect" /\ run.collected = run.n

\* the final summary, save_processing_summary and the return of the results
RunFinish ==
    /\ mpc = "running"
    /\ LoopOver
    /\ LET sr == SuccessRate(run)
       IN IF sr.raised
          THEN \* the exception leaves process_section and main()
               /\ run' = [run EXCEPT !.pc = "raised"]
               /\ mpc' = "crashed"
               /\ exit_code' = 1
          ELSE /\ run' = [run EXCEPT !.rate = sr.value, !.summaries = @ + 1,
                                     !.pc = "returned"]
               /\ UNCHANGED <<mpc, exit_code>>
    /\ UNCHANGED <<inputs, outdir, args, todo, all_success, invocations, th,
                   queue, completed, attempted, section_result, startdir, prev,
                   runB, env, mg, ls, asg, rp>>

\* --------------------------------------------- a concurrently running run
\* run B, another process, scans a category's output directory once, as
\* get_already_processed_files and the simple-resume scan do at its start
ScanB ==
    /\ ~runB.scanned
    /\ \E c \in Cats :
        runB' = [scanned |-> TRUE, cat |-> c,
                 ledger |-> get_already_processed_files(outdir[c]),
                 stems |-> processed_stems(outdir[c]),
                 partial |-> {s \in Names(c) : outdir[c][s] = "partial"}]
    /\ UNCHANGED <<inputs, outdir, args, mpc, todo, all_success, exit_code,
                   invocations, run, th, queue, completed, attempted,
                   section_result, startdir, prev, env, mg, ls, asg, rp>>

\* ------------------------------------------------- sorted(..., key=...)
RECURSIVE LexLeq(_, _)
\* a <= b for two strings, as sequences of code points
LexLeq(a, b) ==
    IF a = <<>> THEN TRUE
    ELSE IF b = <<>> THEN FALSE
    ELSE IF a[1] # b[1] THEN a[1] < b[1]
    ELSE LexLeq(Tail(a), Tail(b))

RECURSIVE InsertBy(_, _, _)
\* x put behind the last element whose key is not greater: equal keys keep
\* the order they came in
InsertBy(sorted, x, key) ==
    IF sorted = <<>> THEN <<x>>
    ELSE LET last == sorted[Len(sorted)]
         IN IF LexLeq(key[last], key[x])
            THEN Append(sorted, x)
            ELSE Append(InsertBy(SubSeq(sorted, 1, Len(sorted) - 1), x, key), last)

RECURSIVE SortedBy(_, _)
\* sorted(seq, key=...): stable
SortedBy(seq, key) ==
    IF seq = <<>> THEN <<>>
    ELSE InsertBy(SortedBy(SubSeq(seq, 1, Len(seq) - 1), key), seq[Len(seq)], key)

RECURSIVE Listed(_)
\* the elements of a set in one of the orders a directory listing can have
Listed(S) == IF S = {} THEN <<>>
             ELSE LET x == CHOOSE y \in S : TRUE IN <<x>> \o Listed(S \ {x})

\* ------------------------------------------------- the order of the inputs
\* names of input documents, without the ".pdf": "a", "b", "A", "B"
DocNames == {<<97>>, <<98>>, <<65>>, <<66>>}

\* x.name.lower() of an input document
LowerDocName(name) == [k \in 1..Len(name) |-> LowerCode(name[k])] \o <<46>>

\* sorted(list(directory.glob("*.pdf")), key=lambda x: x.name.lower()); the
\* position of a document is its index in the result (enumerate(pdf_files, 1))
pdf_files(listing) ==
    SortedBy(listing, [x \in {listing[k] : k \in 1..Len(listing)} |-> LowerDocName(x)])

\* the sequences without repetition over a set: what glob may return for it
Listings(S) == {l \in UNION {[1..n -> S] : n \in {Cardinality(S)}} :
                   \A j, k \in 1..Len(l) : j # k => l[j] # l[k]}

\* a run plans the directory as its listing came
PlanA ==
    /\ ~ls.done_a
    /\ ls' = [ls EXCEPT !.plan_a = pdf_files(ls.a), !.done_a = TRUE]
    /\ UNCHANGED <<inputs, outdir, args, mpc, todo, all_success, exit_code,
                   invocations, run, th, queue, completed, attempted,
                   section_result, startdir, prev, runB, env, mg, asg, rp>>

\* another run over the same directory, listed in its own order
PlanB ==
    /\ ~ls.done_b
    /\ ls' = [ls EXCEPT !.plan_b = pdf_files(ls.b), !.done_b = TRUE]
    /\ UNCHANGED <<inputs, outdir, args, mpc, todo, all_success, exit_code,
                   invocations, run, th, queue, completed, attempted,
                   section_result, startdir, prev, runB, env, mg, asg, rp>>

\* ------------------------------------------------- merge_json_outputs.py
\* the *.json files of a category directory: the artifacts and, once written,
\* <category>_merged.json
ArtifactFile(s) == [kind |-> "artifact", stem |-> s]
MergedFile(c) == [kind |-> "merged", stem |-> [prefix |-> c, suffix |-> <<>>]]

JsonFiles(c) ==
    {ArtifactFile(s) : s \in Glob(outdir[c])}
        \cup (IF mg.merged[c].exists THEN {MergedFile(c)} ELSE {})

\* path.name.lower() from the character after the category prefix on:
\* "-<suffix>.json" for an artifact, "_merged.json" for the merged file
LowerName(f) ==
    IF f.kind = "merged" THEN <<95, 109>>
    ELSE <<45>> \o [k \in 1..Len(f.stem.suffix) |-> LowerCode(f.stem.suffix[k])]
             \o <<46>>

\* a bug: the merged file is not filtered out
EndsWithMergedNever(f) == FALSE

\* path.name.endswith("_merged.json")
EndsWithMerged(f) == f.kind = "merged"

\* collect_json_files
collect_json_files(c) ==
    LET files == {f \in JsonFiles(c) : ~EndsWithMerged(f)}
    IN SortedBy(Listed(files), [f \in files |-> LowerName(f)])

\* json.load of a file raises JSONDecodeError
Unparsable(c, f) == f.kind = "artifact" /\ outdir[c][f.stem] = "partial"

\* merge_category: None, the ValueError naming the first unparsable file, or
\* the merged list that is written
merge_category(c) ==
    LET json_files == collect_json_files(c)
        bad == {k \in 1..Len(json_files) : Unparsable(c, json_files[k])}
    IN IF json_files = <<>>
       THEN [kind |-> "none", file |-> MergedFile(c), data |-> <<>>]
       ELSE IF bad # {}
       THEN [kind |-> "error",
             file |-> json_files[CHOOSE k \in bad : \A j \in bad : k <= j],
             data |-> <<>>]
       ELSE [kind |-> "written", file |-> MergedFile(c), data |-> json_files]

\* a processing run, between two merges, writes an artifact into "2.3":
\* completely, or in part
AddArtifact ==
    /\ mg.pc \in {"idle", "done"}
    /\ mg.adds < MaxAdds
    /\ \E s \in Names("2.3"), st \in {"complete", "partial"} :
        /\ outdir["2.3"][s] = "absent"
        /\ outdir' = [outdir EXCEPT !["2.3"][s] = st]
    /\ mg' = [mg EXCEPT !.adds = @ + 1, !.pc = "idle"]
    /\ UNCHANGED <<inputs, args, mpc, todo, all_success, exit_code, invocations,
                   run, th, queue, completed, attempted, section_result,
                   startdir, prev, runB, env, ls, asg, rp>>

\* merge_outputs up to the loop: the category directories, sorted
MergeStart ==
    /\ mg.pc \in {"idle", "done"}
    /\ mg.calls < MaxRuns
    /\ mg' = [mg EXCEPT !.pc = "loop", !.todo = CatOrder, !.merged_any = FALSE,
                        !.before = mg.merged, !.ret = 0 - 1,
                        !.reported = MergedFile(""), !.calls = @ + 1]
    /\ UNCHANGED <<inputs, outdir, args, mpc, todo, all_success, exit_code,
                   invocations, run, th, queue, completed, attempted,
                   section_result, startdir, prev, runB, env, ls, asg, rp>>

\* one iteration of "for category_dir in category_dirs"
MergeStep ==
    /\ mg.pc = "loop"
    /\ mg.todo # <<>>
    /\ LET c == Head(mg.todo)
           res == merge_category(c)
       IN mg' = CASE res.kind = "error" ->
                       [mg EXCEPT !.pc = "done", !.ret = 1, !.reported = res.file]
                  [] res.kind = "none" ->
                       [mg EXCEPT !.todo = Tail(@)]
                  [] OTHER ->
                       [mg EXCEPT !.todo = Tail(@), !.merged_any = TRUE,
                                  !.merged[c] = [exists |-> TRUE, data |-> res.data]]
    /\ UNCHANGED <<inputs, outdir, args, mpc, todo, all_success, exit_code,
                   invocations, run, th, queue, completed, attempted,
                   section_result, startdir, prev, runB, env, ls, asg, rp>>

\* merge_outputs after the loop
MergeEnd ==
    /\ mg.pc = "loop"
    /\ mg.todo = <<>>
    /\ mg' = [mg EXCEPT !.pc = "done", !.ret = IF mg.merged_any THEN 0 ELSE 1]
    /\ UNCHANGED <<inputs, outdir, args, mpc, todo, all_success, exit_code,
                   invocations, run, th, queue, completed, attempted,
                   section_result, startdir, prev, runB, env, ls, asg, rp>>

\* python main.py --section S [--use-resume [--resume-method M]] [--start-from K],
\* once: the sequential modes
MainStart == MainStartWith({a \in ArgSet : a.cmd = "section" /\ ~a.parallel}, 1)

\* python main.py --section S --use-resume [--start-from K], again and again
MainStartResume ==
    MainStartWith({a \in ArgSet : a.cmd = "section" /\ ModeOf(a) = "smart"
                                   /\ a.section = "2.3"}, MaxRuns)

\* python main.py --section S --parallel --workers W, once
MainStartParallel ==
    MainStartWith({a \in ArgSet : a.cmd = "section" /\ a.parallel}, 1)

\* python main.py --all [flags], once
MainStartAll == MainStartWith({a \in ArgSet : a.cmd = "all"}, 1)

\* what main() and process_section do around a category run
Frame == SectionStart \/ SectionReturn \/ MainExit

\* a step of process_single_pdf in some thread
ItemStep ==
    \E t \in Threads :
        Upload(t) \/ Extract(t) \/ SaveOpen(t) \/ SaveWrite(t) \/ Release(t)

SeqStep == SeqNext \/ SeqRecord \/ RunFinish

PoolStep == (\E t \in Threads : WorkerTake(t) \/ WorkerDone(t)) \/ Collect

\* one invocation on one category, sequential modes, beside another run's scan
Next == MainStart \/ Frame \/ ItemStep \/ SeqStep \/ ScanB

Spec == Init /\ [][Next]_vars

\* the same invocation with no other process beside it
SpecSequential == Init /\ [][MainStart \/ Frame \/ ItemStep \/ SeqStep]_vars

\* smart resume, invocation after invocation
NextResume == MainStartResume \/ Frame \/ ItemStep \/ SeqStep

SpecResume == Init /\ [][NextResume]_vars

\* one invocation in bounded-parallel mode
NextParallel == MainStartParallel \/ Frame \/ ItemStep \/ PoolStep \/ RunFinish

\* the pool never reads the output directory (no ledger scan, lines 668-763),
\* so its runs start from an empty one; SpecAll keeps the pool over existing
\* artifacts
InitFresh == Init /\ outdir["2.3"] = EmptyDir("2.3")

SpecParallel == InitFresh /\ [][NextParallel]_vars

\* one invocation over every available category
NextAll == MainStartAll \/ Frame \/ ItemStep \/ SeqStep \/ PoolStep

SpecAll == Init /\ [][NextAll]_vars

\* python main.py --section 2.3 in any of the four modes, once; the pool does
\* not read the output directory, so its runs start from an empty one
MainStartModes ==
    MainStartWith({a \in ArgSet :
                      /\ a.cmd = "section" /\ a.section = "2.3"
                      /\ a.parallel => outdir["2.3"] = EmptyDir("2.3")}, 1)

\* an output directory left by an earlier run that completed the first k
\* positions, one of these artifacts possibly removed since
EarlierRuns(c) ==
    {[s \in Names(c) |->
         IF \E q \in (1..k) \ {p} : s = PaperId(c, q) THEN "complete" ELSE "absent"] :
       k \in 0..MaxDocs, p \in 0..MaxDocs}

InitModes ==
    /\ inputs \in [Cats -> 0..MaxDocs]
    /\ inputs["2.4"] = 1
    /\ outdir \in [Cats -> UNION {EarlierRuns(c) : c \in Cats}]
    /\ outdir["2.3"] \in EarlierRuns("2.3")
    /\ outdir["2.4"] = EmptyDir("2.4")
    /\ InitControl
    /\ env = GoodEnv
    /\ mg = NoMerge
    /\ ls = NoListing

\* one invocation on one category in any mode
NextModes == MainStartModes \/ Frame \/ ItemStep \/ SeqStep \/ PoolStep

SpecModes == InitModes /\ [][NextModes]_vars

\* *.json stems of other origin in a category's output directory: the first
\* artifact of another category ("2.4-001" in the directory of "2.3"), an
\* unpadded number ("2.3-1"), and the merged archive ("2.3_merged", no "-")
Foreign(c) ==
    {[prefix |-> d, suffix |-> Pad3(1)] : d \in Cats \ {c}}
        \cup {[prefix |-> c, suffix |-> <<1>>], MergedFile(c).stem}

\* data/output/2.3 holding any of the names, the ledger not yet read
InitScan ==
    /\ inputs = [c \in Cats |-> 0]
    /\ \E d \in [Names("2.3") \cup Foreign("2.3") -> {"absent", "complete"}] :
          outdir = [c \in Cats |-> IF c = "2.3" THEN d ELSE EmptyDir(c)]
    /\ InitControl
    /\ env = GoodEnv
    /\ mg = NoMerge
    /\ ls = NoListing

\* get_already_processed_files alone, over the contents of a directory
SpecScan == InitScan /\ [][ScanB]_vars

\* the lowest number an invocation passes with --start-from or --sequence-id
MinSeq == 0 - MaxStart

\* the stems the format gives the positions MinSeq..0: "000", "-01", "-02"
NonPositive(c) == {PaperId(c, p) : p \in MinSeq..0}

\* an empty output directory, also seen under the names of NonPositive
WiderDir(c) == [s \in Names(c) \cup NonPositive(c) |-> "absent"]

\* python main.py --section 2.3 [resume flags] --start-from K, K possibly 0 or
\* negative (argparse type=int takes any integer)
MainStartPositions ==
    MainStartWith({[a EXCEPT !.start_from = k] :
                      a \in {b \in ArgSet : b.cmd = "section" /\ ~b.parallel
                                               /\ b.section = "2.3"},
                      k \in MinSeq..MaxStart}, 1)

\* python main.py --file data/input/<c>/<first>.pdf [--sequence-id K]
FileArgs ==
    {[cmd |-> "file", section |-> c, given |-> g, sequence_id |-> k] :
        c \in Cats, g \in BOOLEAN, k \in MinSeq..MaxStart}

\* process_single_file: "if sequence_id is None: sequence_id = 1"
SequenceIdOf(a) == IF a.given THEN a.sequence_id ELSE 1

\* main() with --file: process_single_file up to its call of process_single_pdf
MainStartFile ==
    /\ mpc \in {"idle", "exit", "crashed"}
    /\ invocations < 1
    /\ \E a \in FileArgs :
        /\ ~a.given => a.sequence_id = 0
        /\ args' = a
        /\ IF inputs[a.section] < 1
           THEN \* "File not found": process_single_file returns False
                /\ mpc' = "exit"
                /\ exit_code' = 1
                /\ run' = NoRun
                /\ th' = [t \in Threads |-> IdleItem]
                /\ UNCHANGED startdir
           ELSE /\ mpc' = "running"
                /\ exit_code' = 0 - 1
                /\ run' = [NoRun EXCEPT !.mode = "file", !.cat = a.section,
                                        !.n = 1, !.pc = "single"]
                /\ th' = [[t \in Threads |-> IdleItem] EXCEPT ![0] =
                             [IdleItem EXCEPT !.doc = 1, !.pos = SequenceIdOf(a),
                                              !.step = "upload"]]
                /\ startdir' = outdir[a.section]
    /\ invocations' = invocations + 1
    /\ all_success' = TRUE
    /\ attempted' = {}
    /\ section_result' = [c \in Cats |-> "none"]
    /\ todo' = <<>>
    /\ queue' = <<>>
    /\ completed' = {}
    /\ UNCHANGED <<inputs, outdir, prev, runB, env, mg, ls, asg, rp>>

\* process_single_file after the call, and main()'s exit code
SingleFileReturn ==
    /\ mpc = "running"
    /\ run.pc = "single"
    /\ th[0].step = "done"
    /\ run' = [run EXCEPT !.pc = "returned", !.success = th[0].ret]
    /\ all_success' = th[0].ret
    /\ mpc' = "exit"
    /\ exit_code' = IF th[0].ret THEN 0 ELSE 1
    /\ th' = [th EXCEPT ![0] = IdleItem]
    /\ UNCHANGED <<inputs, outdir, args, todo, invocations, queue, completed,
                   attempted, section_result, startdir, prev, runB, env, mg, ls,
                   asg, rp>>

InitPositions ==
    /\ inputs \in [Cats -> 0..MaxDocs]
    /\ inputs["2.4"] = 1
    /\ outdir = [c \in Cats |-> WiderDir(c)]
    /\ InitControl
    /\ env = GoodEnv
    /\ mg = NoMerge
    /\ ls = NoListing

\* one invocation that names a start position or a sequence id
NextPositions ==
    MainStartPositions \/ MainStartFile \/ Frame \/ ItemStep \/ SeqStep
        \/ SingleFileReturn

SpecPositions == InitPositions /\ [][NextPositions]_vars

\* the power of ten the three-digit field overflows at
Wide == 1000

\* positions around the widths of the field: one to three digits, the first
\* four-digit numbers, five digits
AssignPositions ==
    (1..MaxPos) \cup {Wide - 1 + k : k \in 0..MaxPos}
                \cup {10 * Wide + k : k \in 0..MaxPos}

\* paper_id = f"{section_code}-{sequence_id:03d}" for two positions of a category
Assign ==
    /\ ~asg.done
    /\ asg' = [asg EXCEPT !.id_p = PaperId(asg.cat, asg.p),
                          !.id_q = PaperId(asg.cat, asg.q),
                          !.done = TRUE]
    /\ UNCHANGED <<inputs, outdir, args, mpc, todo, all_success, exit_code,
                   invocations, run, th, queue, completed, attempted,
                   section_result, startdir, prev, runB, env, mg, ls, rp>>

InitAssign ==
    /\ inputs = [c \in Cats |-> 0]
    /\ outdir = [c \in Cats |-> EmptyDir(c)]
    /\ InitProgram
    /\ env = GoodEnv
    /\ mg = NoMerge
    /\ ls = NoListing
    /\ asg \in {[NoAssign EXCEPT !.cat = c, !.p = p, !.q = q] :
                   c \in Cats, p \in AssignPositions, q \in AssignPositions}
    /\ rp = NoResponse

\* the identifier assignment alone, over pairs of positions
SpecAssign == InitAssign /\ [][Assign]_vars

\* ----------------------------------- process_pdf_with_gemini: the response
\* A text is a sequence of tokens: "F" is the fence ```, "json" and "text" are
\* language tags, "NL" a newline, "k" a quoted key with its colon, "n" a number,
\* and "{", "}", "[", "]", "," themselves.
RECURSIVE ValueEnd(_, _), ElemsEnd(_, _), MembersEnd(_, _)
\* the index behind the JSON value that starts at t[i], 0 if there is none
ValueEnd(t, i) ==
    IF i > Len(t) THEN 0
    ELSE CASE t[i] = "n" -> i + 1
           [] t[i] = "[" -> IF i < Len(t) /\ t[i + 1] = "]" THEN i + 2
                            ELSE ElemsEnd(t, i + 1)
           [] t[i] = "{" -> IF i < Len(t) /\ t[i + 1] = "}" THEN i + 2
                            ELSE MembersEnd(t, i + 1)
           [] OTHER -> 0

\* the index behind "]" of the array whose next element starts at t[i]
ElemsEnd(t, i) ==
    LET j == ValueEnd(t, i)
    IN IF j = 0 \/ j > Len(t) THEN 0
       ELSE IF t[j] = "]" THEN j + 1
       ELSE IF t[j] = "," THEN ElemsEnd(t, j + 1)
       ELSE 0

\* the index behind "}" of the object whose next member starts at t[i]
MembersEnd(t, i) ==
    IF i > Len(t) \/ t[i] # "k" THEN 0
    ELSE LET j == ValueEnd(t, i + 1)
         IN IF j = 0 \/ j > Len(t) THEN 0
            ELSE IF t[j] = "}" THEN j + 1
            ELSE IF t[j] = "," THEN MembersEnd(t, j + 1)
            ELSE 0

\* json.loads(json_text): the value, written without whitespace, or
\* JSONDecodeError (ok = FALSE) when the text is not one JSON value
Loads(json_text) ==
    LET t == SelectSeq(json_text, LAMBDA x : x # "NL")
    IN IF ValueEnd(t, 1) = Len(t) + 1
       THEN [ok |-> TRUE, value |-> t]
       ELSE [ok |-> FALSE, value |-> <<>>]

RECURSIVE Strip(_)
\* str.strip(): the whitespace at both ends is dropped
Strip(t) ==
    IF t = <<>> THEN t
    ELSE IF Head(t) = "NL" THEN Strip(Tail(t))
    ELSE IF t[Len(t)] = "NL" THEN Strip(SubSeq(t, 1, Len(t) - 1))
    ELSE t

\* str.startswith(prefix)
StartsWith(t, prefix) ==
    Len(t) >= Len(prefix) /\ SubSeq(t, 1, Len(prefix)) = prefix

\* str.find(ch) and str.rfind(ch), 1-based; 0 for Python's -1
Find(t, ch) ==
    IF \E i \in 1..Len(t) : t[i] = ch
    THEN CHOOSE i \in 1..Len(t) : t[i] = ch /\ \A j \in 1..(i - 1) : t[j] # ch
    ELSE 0

RFind(t, ch) ==
    IF \E i \in 1..Len(t) : t[i] = ch
    THEN CHOOSE i \in 1..Len(t) : t[i] = ch /\ \A j \in (i + 1)..Len(t) : t[j] # ch
    ELSE 0

RECURSIVE SplitLines(_)
\* str.split('\n')
SplitLines(t) ==
    LET i == Find(t, "NL")
    IN IF i = 0 THEN <<t>>
       ELSE <<SubSeq(t, 1, i - 1)>> \o SplitLines(SubSeq(t, i + 1, Len(t)))

RECURSIVE JoinLines(_)
\* '\n'.join(lines)
JoinLines(lines) ==
    IF lines = <<>> THEN <<>>
    ELSE IF Len(lines) = 1 THEN lines[1]
    ELSE lines[1] \o <<"NL">> \o JoinLines(Tail(lines))

\* json_text: after "```json" the text from the first "{" to the last "}",
\* after another fence the lines between the first and the last one
JsonText(response_text) ==
    LET st == Strip(response_text)
    IN IF StartsWith(st, <<"F", "json">>)
       THEN LET start_idx == Find(response_text, "{")
                end_idx == RFind(response_text, "}")
            IN IF start_idx # 0 /\ end_idx # 0
               THEN SubSeq(response_text, start_idx, end_idx)
               ELSE response_text
       ELSE IF StartsWith(st, <<"F">>)
       THEN LET lines == SplitLines(st)
            IN IF Len(lines) > 2
               THEN JoinLines(SubSeq(lines, 2, Len(lines) - 1))
               ELSE response_text
       ELSE response_text

\* payload texts: JSON values (a number, empty and filled objects and arrays,
\* nested ones, values over several lines) and texts that are no JSON value
Payloads ==
    {<<"n">>, <<"{", "}">>, <<"[", "]">>,
     <<"{", "k", "n", "}">>, <<"[", "n", "]">>, <<"[", "n", ",", "n", "]">>,
     <<"[", "{", "k", "n", "}", "]">>,
     <<"[", "{", "k", "n", "}", ",", "{", "k", "n", "}", "]">>,
     <<"{", "k", "[", "n", "]", "}">>,
     <<"{", "k", "{", "k", "n", "}", ",", "k", "n", "}">>,
     <<"{", "NL", "k", "n", "NL", "}">>, <<"[", "NL", "n", "NL", "]">>,
     <<"{", "k", "n">>, <<"{", "k", "n", "}", "}">>, <<"[", "n">>,
     <<"n", "n">>, <<"n", "{", "k", "n", "}">>, <<"k", "n">>}

\* the response text: the payload as the service wraps it, not at all
\* ("bare") or between an opening fence line (no tag: "plain", the tag json,
\* another tag) and a closing fence line, a newline behind it or not
Response(wrap, payload, newline) ==
    LET body == CASE wrap = "bare" -> payload
                  [] wrap = "plain" -> <<"F", "NL">> \o payload \o <<"NL", "F">>
                  [] OTHER -> <<"F", wrap, "NL">> \o payload \o <<"NL", "F">>
    IN IF newline THEN body \o <<"NL">> ELSE body

\* process_pdf_with_gemini from response.text on; what it returns is given in
\* the terms of ExtractOutcomes: None for no text and for JSONDecodeError,
\* else the value
ParseResponse ==
    /\ ~rp.done
    /\ LET r == Loads(JsonText(rp.text))
       IN rp' = [rp EXCEPT
                   !.json_data = r,
                   !.outcome = IF rp.text = <<>> \/ ~r.ok THEN "none"
                               ELSE IF r.value \in {<<"{", "}">>, <<"[", "]">>}
                               THEN "empty"
                               ELSE "ok",
                   !.done = TRUE]
    /\ UNCHANGED <<inputs, outdir, args, mpc, todo, all_success, exit_code,
                   invocations, run, th, queue, completed, attempted,
                   section_result, startdir, prev, runB, env, mg, ls, asg>>

InitParse ==
    /\ inputs = [c \in Cats |-> 0]
    /\ outdir = [c \in Cats |-> EmptyDir(c)]
    /\ InitProgram
    /\ env = GoodEnv
    /\ mg = NoMerge
    /\ ls = NoListing
    /\ asg = NoAssign
    /\ rp \in {[NoResponse EXCEPT !.payload = j, !.wrap = w, !.newline = nl,
                                   !.text = Response(w, j, nl)] :
                  j \in Payloads, w \in {"bare", "plain", "json", "text"},
                  nl \in BOOLEAN}

\* the parsing of one response, over payloads and wrappings
SpecParse == InitParse /\ [][ParseResponse]_vars

\* data/output/2.3 as an earlier run left it that completed every position
InitPoolResume ==
    /\ inputs \in [Cats -> 0..MaxDocs]
    /\ inputs["2.4"] = 1
    /\ outdir = [c \in Cats |->
                   [s \in Names(c) |->
                       IF c = "2.3" /\ \E q \in 1..MaxDocs : s = PaperId(c, q)
                       THEN "complete" ELSE "absent"]]
    /\ InitControl
    /\ env = GoodEnv
    /\ mg = NoMerge
    /\ ls = NoListing

\* one invocation that asks for the pool and for resume at once:
\* python main.py --section 2.3 --parallel --workers W --use-resume
\* --start-from K, and python main.py --resume 2.3 --parallel --workers 1
\* --resume-method simple --start-from K, K the highest start position
NextPoolResume ==
    \/ MainStartWith(
         {[a EXCEPT !.use_resume = TRUE, !.start_from = MaxStart] :
             a \in {b \in ArgSet : b.cmd = "section" /\ b.parallel
                                      /\ b.section = "2.3"}}
         \cup
         {[a EXCEPT !.cmd = "resume", !.resume_method = "simple",
                    !.start_from = MaxStart] :
             a \in {b \in ArgSet : b.cmd = "section" /\ b.parallel
                                      /\ b.section = "2.3" /\ b.workers = 1}}, 1)
    \/ Frame \/ ItemStep \/ PoolStep \/ RunFinish

SpecPoolResume == InitPoolResume /\ [][NextPoolResume]_vars

\* data/output/2.3 as earlier runs and other hands left it: any of the
\* artifacts of the first MaxDocs positions, and at most one *.json file of
\* another name
InitResumeModes ==
    /\ inputs \in [Cats -> 0..MaxDocs]
    /\ inputs["2.4"] = 1
    /\ \E d \in [Names("2.3") \cup Foreign("2.3") -> {"absent", "complete"}] :
          /\ Cardinality(Glob(d) \cap (Malformed("2.3") \cup Foreign("2.3"))) <= 1
          /\ \A p \in (MaxDocs + 1)..MaxPos : d[PaperId("2.3", p)] = "absent"
          /\ outdir = [c \in Cats |-> IF c = "2.3" THEN d ELSE EmptyDir(c)]
    /\ InitControl
    /\ env = GoodEnv
    /\ mg = NoMerge
    /\ ls = NoListing

\* python main.py --section 2.3 --use-resume [--resume-method simple], from
\* position 1, once
NextResumeModes ==
    \/ MainStartWith({a \in ArgSet :
                         /\ a.cmd = "section" /\ a.section = "2.3"
                         /\ ModeOf(a) \in {"smart", "simple"}
                         /\ a.start_from = 1}, 1)
    \/ Frame \/ ItemStep \/ SeqStep

\* one smart-resume or simple-resume run from position 1 over such a directory
SpecResumeModes == InitResumeModes /\ [][NextResumeModes]_vars

\* python merge_json_outputs.py, again and again, artifacts arriving in between
MergeTool == MergeStart \/ MergeStep \/ MergeEnd

NextMerge == MergeTool \/ AddArtifact

\* data/output after some processing: "2.3" holds the artifacts of its first k
\* positions and any of the malformed names, "2.4" at most the artifact of its
\* position 1, which may be unparsable; no merged file yet
InitMerge ==
    /\ inputs = [c \in Cats |-> 0]
    /\ \E k \in 0..MaxDocs, mal \in SUBSET Malformed("2.3"), st \in FileStates :
          outdir = [c \in Cats |->
                      IF c = "2.3"
                      THEN [s \in Names(c) |->
                              IF s \in {PaperId(c, p) : p \in 1..k} \cup mal
                              THEN "complete" ELSE "absent"]
                      ELSE [EmptyDir(c) EXCEPT ![PaperId(c, 1)] = st]]
    /\ InitControl
    /\ env = GoodEnv
    /\ mg = NoMerge
    /\ ls = NoListing

SpecMerge == InitMerge /\ [][NextMerge]_vars

\* two runs plan one input directory, each from its own listing of it
NextOrder == PlanA \/ PlanB

\* an input directory holding any of the names, listed twice in any two orders
InitOrder ==
    /\ inputs = [c \in Cats |-> 0]
    /\ outdir = [c \in Cats |-> EmptyDir(c)]
    /\ InitControl
    /\ env = GoodEnv
    /\ mg = NoMerge
    /\ \E S \in SUBSET DocNames :
         \E la \in Listings(S), lb \in Listings(S) :
            ls = [NoListing EXCEPT !.a = la, !.b = lb]

SpecOrder == InitOrder /\ [][NextOrder]_vars

\* python main.py --section 2.3 --use-resume [--resume-method M] [--start-from K]
MainStartLedger ==
    MainStartWith({a \in ArgSet : a.cmd = "section" /\ a.use_resume
                                   /\ ~a.parallel /\ a.section = "2.3"}, 1)

\* a resume run over an output directory that holds a malformed name
NextLedger == MainStartLedger \/ Frame \/ ItemStep \/ SeqStep

\* as Init, but one of the malformed names is in the output directory of "2.3"
InitLedger ==
    /\ inputs \in [Cats -> 0..MaxDocs]
    /\ inputs["2.4"] = 1
    /\ outdir \in [Cats -> UNION {[Names(c) -> {"absent", "complete"}] : c \in Cats}]
    /\ DOMAIN outdir["2.3"] = Names("2.3")
    /\ Cardinality({s \in Malformed("2.3") : outdir["2.3"][s] # "absent"}) = 1
    /\ outdir["2.4"] = EmptyDir("2.4")
    /\ InitControl
    /\ env = GoodEnv
    /\ mg = NoMerge
    /\ ls = NoListing

SpecLedger == InitLedger /\ [][NextLedger]_vars

\* a section code that is no key of SECTION_DESCRIPTIONS
UnknownSection == "9.9"

\* the sequential invocations, those naming an unknown section among them
CliArgs ==
    {a \in ArgSet : ~a.parallel}
        \cup {[a EXCEPT !.section = UnknownSection] :
                 a \in {b \in ArgSet : b.cmd = "section" /\ ~b.parallel}}

\* python main.py (--section S | --all) [--use-resume ...], once
MainStartCli == MainStartWith(CliArgs, 1)

NextCli == MainStartCli \/ Frame \/ ItemStep \/ SeqStep

\* what an invocation can find: prompt.md there or not, the client
\* initialising or not, data/input/2.3 missing, empty or holding documents,
\* data/input/2.4 empty or holding one; nothing was processed before
InitCli ==
    /\ inputs \in [Cats -> {NoDir} \cup (0..MaxDocs)]
    /\ inputs["2.4"] \in {0, 1}
    /\ outdir = [c \in Cats |-> EmptyDir(c)]
    /\ InitControl
    /\ env \in [template : BOOLEAN, init_ok : BOOLEAN]
    /\ mg = NoMerge
    /\ ls = NoListing

SpecCli == InitCli /\ [][NextCli]_vars

\* ------------------------------------------------------------- properties
\* the positions whose artifact, named by PaperId, existed when the run started
StartPositions == {p \in 1..MaxPos : startdir[PaperId(run.cat, p)] # "absent"}

\* the run's loop is over: it returned its results or raised at the final summary
RunOver == run.pc \in {"returned", "raised"} /\ run.mode # "none"

\* the positions of the records of the run
Executed == {run.files[k].sequence_id : k \in 1..Len(run.files)}

\* C1: a smart-resume run over N documents, started at s with artifacts at the
\* positions S, executes exactly {p in s..N : p not in S}, each document at its
\* natural sorted position and under that position's identifier, once, and
\* counts every other position of 1..N as skipped.
C1_SmartResumeSchedule ==
    (RunOver /\ run.mode = "smart") =>
        LET due == {p \in run.start_from..run.n : p \notin StartPositions}
        IN /\ Executed = due
           /\ Len(run.files) = Cardinality(due)
           /\ \A k \in 1..Len(run.files) :
                 /\ run.files[k].filename = run.files[k].sequence_id
                 /\ run.files[k].paper_id = PaperId(run.cat, run.files[k].sequence_id)
           /\ run.skipped = Cardinality((1..run.n) \ due)

\* C1 witness: three documents, artifacts at 1, 2 and 4, start 1: position 3 alone
\* was executed and two positions were skipped
C1_Witness ==
    /\ RunOver /\ run.mode = "smart" /\ run.n = 3 /\ run.start_from = 1
    /\ StartPositions = {1, 2, 4}
    /\ Executed = {3}
    /\ run.skipped = 2

\* C2: after a smart-resume run in which nothing failed, the same smart-resume
\* run again executes no item and yields a summary with skipped = total and
\* processed = 0.
C2_SecondRunSkipsAll ==
    (/\ RunOver /\ run.mode = "smart" /\ run.n > 0
     /\ prev.mode = "smart" /\ prev.pc = "returned" /\ prev.failed = 0
     /\ prev.cat = run.cat /\ prev.start_from = run.start_from)
    => /\ run.files = <<>>
       /\ run.pc = "returned"
       /\ run.summaries = 1
       /\ run.skipped = run.n
       /\ run.processed = 0

\* C3: a bounded-parallel run with at least one worker ends with exactly one
\* record for every submitted item, failed items included, and the records
\* carry pairwise distinct paper identifiers.
C3_ParallelOneRecordEach ==
    (run.mode = "parallel" /\ run.workers >= 1
     /\ (run.pc = "returned" \/ (run.pc = "collect" /\ run.collected = run.n)))
    => /\ Len(run.files) = run.n
       /\ Executed = 1..run.n
       /\ \A j, k \in 1..Len(run.files) :
             j # k => run.files[j].paper_id # run.files[k].paper_id
       /\ \A k \in 1..Len(run.files) :
             run.files[k].paper_id = PaperId(run.cat, run.files[k].sequence_id)

\* C3 witness: three documents, two workers, the records not in submission
\* order, a failed item among them
C3_Witness ==
    /\ run.mode = "parallel" /\ run.pc = "returned"
    /\ run.n = 3 /\ run.workers = 2
    /\ Len(run.files) = 3
    /\ run.files[1].sequence_id = 2
    /\ ~run.files[1].success
    /\ run.files[3].success

\* C4: a process-all invocation that has ended has attempted every available
\* category, and exits with 0 exactly when every available category succeeded.
C4_AllCategoriesAttempted ==
    (args.cmd = "all" /\ mpc \in {"exit", "crashed"}
     /\ find_available_sections # <<>>)
    => LET available == {find_available_sections[k] :
                            k \in 1..Len(find_available_sections)}
       IN /\ attempted = available
          /\ (exit_code = 0) <=> (\A c \in available : section_result[c] = "ok")

\* C5: a run over a non-empty category that attempted no item (processed +
\* failed = 0) raises no error: it reports a success rate of 0, persists its
\* summary and returns its result.
C5_NothingAttemptedRateZero ==
    (RunOver /\ run.has_total /\ run.success /\ run.processed + run.failed = 0)
    => /\ run.pc = "returned"
       /\ run.rate = 0
       /\ run.summaries = 1

\* an item's remote handle was acquired: the upload returned a non-empty id
Acquired(item) == item.file_id = "h"

\* C6: in process_single_pdf a release of the remote handle is requested at most
\* once, only for a handle that was acquired, and when the item's result is
\* about to be produced it was requested exactly once if a handle was acquired
\* and not at all otherwise, whatever extraction and persistence did.
C6_ReleaseExactlyOnce ==
    \A t \in Threads :
        /\ th[t].rel <= 1
        /\ th[t].rel = 1 => Acquired(th[t])
        /\ th[t].step = "done" => th[t].rel = (IF Acquired(th[t]) THEN 1 ELSE 0)

\* C6 witness: an item whose handle was acquired and whose persistence failed is
\* about to produce its result, the release requested once
C6_Witness ==
    /\ th[0].step = "done"
    /\ Acquired(th[0]) /\ th[0].json_data = "ok" /\ ~th[0].saved /\ ~th[0].ret
    /\ th[0].rel = 1

\* C7: an item returns success only after the upload gave a non-empty handle,
\* the extraction a non-empty parsed payload and the persistence succeeded; and
\* every record with success = true names, by its paper identifier, an artifact
\* that exists, completely written, in the category's output directory.
C7_SuccessMeansArtifact ==
    /\ \A t \in Threads :
          (th[t].step = "done" /\ th[t].ret) =>
              /\ th[t].file_id = "h"
              /\ th[t].json_data = "ok"
              /\ th[t].saved
              /\ outdir[run.cat][PaperId(run.cat, th[t].pos)] = "complete"
    /\ \A k \in 1..Len(run.files) :
          run.files[k].success =>
              outdir[run.cat][run.files[k].paper_id] = "complete"

\* C7 witness: a run recorded a successful item after a failed one
C7_Witness ==
    /\ run.pc = "returned" /\ Len(run.files) = 2
    /\ ~run.files[1].success /\ run.files[2].success
    /\ startdir[run.files[2].paper_id] = "absent"

\* C8: once a run is over, an item it recorded with success = false and for
\* which no artifact existed before the run is not reported as completed by a
\* ledger scan (so that a smart-resume run executes it again).
C8_FailedItemNotInLedger ==
    (run.pc = "returned") =>
        \A k \in 1..Len(run.files) :
            (~run.files[k].success /\ startdir[run.files[k].paper_id] = "absent")
            => run.files[k].sequence_id
                   \notin get_already_processed_files(outdir[run.cat])

\* C9: the ledger scan of another, concurrently running run never counts an
\* identifier as completed whose artifact was only partially written when it
\* scanned.
C9_ScanSeesNoPartialArtifact ==
    runB.scanned =>
        /\ \A p \in runB.ledger : PaperId(runB.cat, p) \notin runB.partial
        /\ runB.stems \cap runB.partial = {}

\* the positions a sequential run has to execute, from the directory as it was
\* when the run started
Planned ==
    CASE run.mode = "smart" ->
            {p \in run.start_from..run.n : p \notin StartPositions}
      [] run.mode = "simple" ->
            {p \in run.start_from..(run.start_from + run.n - 1) :
                p \notin StartPositions}
      [] OTHER -> 1..run.n

\* C10: in the sequential modes a failed item gives a failed record for that
\* item and the run goes on: at every point of the loop the records and the
\* item in execution are exactly the planned positions up to the loop index,
\* and at the end every planned position has its record, failed ones counted.
C10_FailureDoesNotAbort ==
    (Sequential(run.mode) /\ run.pc \in {"loop", "returned", "raised"}) =>
        LET here == PositionOf(run.mode, run.i, run.start_from)
            busy == IF th[0].step = "idle" THEN {} ELSE {th[0].pos}
        IN /\ Executed \cup busy =
                 {p \in Planned : p < here} \cup (busy \cap Planned)
           /\ busy \cap Executed = {}
           /\ (run.pc # "loop") => Executed = Planned
           /\ run.failed = Cardinality({k \in 1..Len(run.files) :
                                           ~run.files[k].success})
           /\ \A k \in 1..Len(run.files) :
                 ~run.files[k].success => run.files[k].error # ""

\* C10 witness: the first of three planned items failed and the two after it
\* were executed
C10_Witness ==
    /\ Sequential(run.mode) /\ run.pc = "returned"
    /\ Len(run.files) = 3
    /\ ~run.files[1].success
    /\ run.files[2].success
    /\ ~run.files[3].success

\* the categories the bulk merge in progress, or just over, went through
\* without an error
MergedNow == {c \in Cats : mg.pc \in {"loop", "done"}
                           /\ \A k \in 1..Len(mg.todo) : mg.todo[k] # c}

\* C11: after a merge of a category whose artifacts all parse, whatever merges
\* and additions came before, the merged file holds exactly one element per
\* artifact now in the directory, in case-insensitive name order, and no
\* element read from a merged file; a category without artifacts is left alone.
C11_MergeOnePerArtifact ==
    \A c \in MergedNow :
        LET present == Glob(outdir[c])
            data == mg.merged[c].data
        IN IF present = {}
           THEN mg.merged[c] = mg.before[c]
           ELSE /\ mg.merged[c].exists
                /\ Len(data) = Cardinality(present)
                /\ {data[k] : k \in 1..Len(data)} = {ArtifactFile(s) : s \in present}
                /\ \A j, k \in 1..Len(data) :
                      j < k => LexLeq(LowerName(data[j]), LowerName(data[k]))

\* C11 witness: two artifacts merged, a third one added, merged again: three
\* elements
C11_Witness ==
    /\ mg.pc = "done" /\ mg.ret = 0 /\ mg.calls = 2 /\ mg.adds = 1
    /\ Len(mg.before["2.3"].data) = 2
    /\ Len(mg.merged["2.3"].data) = 3

\* a category holds an artifact that does not parse
HasUnparsable(c) == \E s \in Glob(outdir[c]) : outdir[c][s] = "partial"

\* C12: when a bulk merge is over, every category with an unparsable artifact
\* has its merged file as it was and such a file was reported, and every other
\* category that holds artifacts was merged: its merged file holds them all.
C12_BulkMergeContinues ==
    (mg.pc = "done") =>
        /\ (\E c \in Cats : HasUnparsable(c)) =>
               /\ mg.reported.kind = "artifact"
               /\ Unparsable(mg.reported.stem.prefix, mg.reported)
        /\ \A c \in Cats :
              /\ HasUnparsable(c) => mg.merged[c] = mg.before[c]
              /\ (~HasUnparsable(c) /\ Glob(outdir[c]) # {}) =>
                     /\ mg.merged[c].exists
                     /\ Len(mg.merged[c].data) = Cardinality(Glob(outdir[c]))

\* C13: a simple-resume run started at s over N documents gives the document
\* at sorted index i (0-based) the position s + i, for every i in 0..N-1, and
\* executes it, once and under that position's identifier, unless that
\* identifier had an artifact when the run started.
C13_SimpleResumeSchedule ==
    (RunOver /\ run.mode = "simple") =>
        /\ \A d \in 1..run.n :
              LET pos == run.start_from + (d - 1)
                  recs == {k \in 1..Len(run.files) : run.files[k].filename = d}
              IN IF startdir[PaperId(run.cat, pos)] # "absent"
                 THEN recs = {}
                 ELSE /\ Cardinality(recs) = 1
                      /\ \A k \in recs :
                            /\ run.files[k].sequence_id = pos
                            /\ run.files[k].paper_id = PaperId(run.cat, pos)
        /\ \A k \in 1..Len(run.files) : run.files[k].filename \in 1..run.n

\* C13 witness: three documents, start 2, an artifact at position 3: the
\* documents at index 0 and 2 were executed at the positions 2 and 4
C13_Witness ==
    /\ RunOver /\ run.mode = "simple" /\ run.n = 3 /\ run.start_from = 2
    /\ StartPositions = {1, 3}
    /\ Len(run.files) = 2
    /\ run.files[1].filename = 1 /\ run.files[1].sequence_id = 2
    /\ run.files[2].filename = 3 /\ run.files[2].sequence_id = 4

\* C14: two runs over the same directory contents give every document the
\* same position, whatever the orders of their two listings, and the positions
\* follow the case-insensitive order of the names.
C14_PositionsReproducible ==
    (ls.done_a /\ ls.done_b) =>
        /\ ls.plan_a = ls.plan_b
        /\ \A j, k \in 1..Len(ls.plan_a) :
              j < k => LexLeq(LowerDocName(ls.plan_a[j]), LowerDocName(ls.plan_a[k]))

\* C15: with a file of non-numeric suffix in the output directory, the scan of
\* a smart or simple resume run ends, its ledger holds exactly the well-formed
\* artifacts, and the run executes every position it would execute without
\* that file: none is skipped because of it.
C15_MalformedNotCounted ==
    (run.mode \in {"smart", "simple"} /\ run.n > 0
     /\ \E m \in Malformed(run.cat) : startdir[m] # "absent")
    => /\ run.mode = "smart" => run.already_processed = StartPositions
       /\ run.mode = "simple" =>
             \A p \in 1..MaxPos : PaperId(run.cat, p) \in run.processed_files
                                       <=> p \in StartPositions
       /\ RunOver => /\ Executed = Planned
                     /\ run.skipped = run.n - Cardinality(Planned)

\* C15 witness: a smart-resume run over two documents with "2.3-ab1.json" and
\* the artifact of position 2 in the output directory executed position 1
C15_Witness ==
    /\ RunOver /\ run.mode = "smart" /\ run.n = 2 /\ run.start_from = 1
    /\ startdir[[prefix |-> "2.3", suffix |-> <<97, 98, 1>>]] = "complete"
    /\ StartPositions = {2}
    /\ Executed = {1}
    /\ run.skipped = 1

\* C16: a run on an empty input directory returns a successful empty plan: no
\* item is executed, processed = failed = skipped = 0, success is true, and
\* once the call is over process_section has reported the category as
\* succeeded and the invocation has not died.
C16_EmptyInputSucceeds ==
    (args.cmd = "section" /\ attempted = {args.section}
     /\ inputs[args.section] = 0)
    => /\ (run.mode # "none") =>
             /\ run.success /\ run.files = <<>>
             /\ run.processed = 0 /\ run.failed = 0 /\ run.skipped = 0
       /\ \A t \in Threads : th[t].step = "idle"
       /\ mpc # "crashed"
       /\ mpc \in {"dispatch", "exit"} => section_result[args.section] = "ok"

\* C17: when prompt.md is missing nothing is worked on: no document is
\* uploaded, no extraction request goes out, for any item.
C17_NoTemplateNoWork ==
    ~env.template =>
        \A t \in Threads : ~Acquired(th[t]) /\ th[t].prompt = "unset"

\* the top-level failures of an invocation: the client does not initialise,
\* the section is unknown, its directory is missing or holds no document, or
\* --all finds no section with documents
TopLevelFailure ==
    \/ ~env.init_ok
    \/ /\ args.cmd = "section"
       /\ \/ args.section \notin Cats
          \/ inputs[args.section] = NoDir
          \/ inputs[args.section] = 0
    \/ args.cmd = "all" /\ find_available_sections = <<>>

\* C19: an invocation that has ended gave exit code 1 and executed no item if
\* it met a top-level failure, and exit code 0 otherwise (failed items do not
\* make a category fail).
C19_ExitCodes ==
    (mpc \in {"exit", "crashed"}) =>
        IF TopLevelFailure
        THEN /\ exit_code = 1
             /\ run.files = <<>>
             /\ prev.processed + prev.failed = 0
             /\ \A t \in Threads : th[t].step = "idle"
        ELSE exit_code = 0

\* C18: every record with success = false has a non-empty error detail, and
\* every result of a processing function with success = false carries an
\* error reason, a failure of the worker pool included.
C18_EveryFailureHasReason ==
    /\ \A k \in 1..Len(run.files) :
          ~run.files[k].success => run.files[k].error # ""
    /\ \A f \in completed : ~f.rec.success => f.rec.error # ""
    /\ (run.mode # "none" /\ run.pc = "returned" /\ ~run.success)
          => run.error # ""

\* C20: in the sequential modes one item is in execution at a time, in the
\* calling thread; it starts when the records of all planned positions below
\* its own are in the list, and the list is in strictly ascending position
\* order.
C20_SequentialAscending ==
    Sequential(run.mode) =>
        /\ \A t \in Threads : t # 0 => th[t].step = "idle"
        /\ \A j, k \in 1..Len(run.files) :
              j < k => run.files[j].sequence_id < run.files[k].sequence_id
        /\ th[0].step # "idle" =>
              /\ \A k \in 1..Len(run.files) :
                    run.files[k].sequence_id < th[0].pos
              /\ Executed = {p \in Planned : p < th[0].pos}

\* C20 witness: a simple-resume run from position 2 has the records of the
\* positions 2 and 3, in that order, and the item of position 4 in execution
C20_Witness ==
    /\ run.mode = "simple" /\ run.pc = "loop"
    /\ Len(run.files) = 2
    /\ run.files[1].sequence_id = 2 /\ run.files[2].sequence_id = 3
    /\ th[0].step = "extract" /\ th[0].pos = 4

\* C21: in the sequential modes the delay is inserted after an executed item
\* exactly when another item is executed after it in the same run, so never
\* after the last executed item.
C21_DelayBetweenExecuted ==
    (RunOver /\ Sequential(run.mode))
    => run.slept = {p \in Executed : \E q \in Executed : q > p}

\* the pool threads with an item in execution: taken from the queue, its
\* record not yet produced
InFlight == {t \in Threads : t >= 1 /\ th[t].step # "idle"}

\* C22: in a bounded-parallel run with N workers at most N items are in
\* execution at any time, however many were submitted; in the sequential modes
\* the only item in execution is the calling thread's.
C22_AtMostNInFlight ==
    /\ run.mode = "parallel" =>
          /\ Cardinality(InFlight) <= run.workers
          /\ th[0].step = "idle"
    /\ Sequential(run.mode) => InFlight = {}

\* C22 witness: three submitted items, two workers, both busy, one item waiting
C22_Witness ==
    /\ run.mode = "parallel" /\ run.n = 3 /\ run.workers = 2
    /\ Cardinality(InFlight) = 2
    /\ queue # <<>>

\* C23: the items in flight in a bounded-parallel run have pairwise distinct
\* paper identifiers, and no identifier in flight is one already recorded or
\* still waiting, so each artifact path is written by at most one worker.
C23_DistinctPathsInFlight ==
    run.mode = "parallel" =>
        /\ \A t, u \in InFlight :
              t # u => PaperId(run.cat, th[t].pos) # PaperId(run.cat, th[u].pos)
        /\ \A t \in InFlight :
              /\ \A k \in 1..Len(queue) :
                    PaperId(run.cat, queue[k]) # PaperId(run.cat, th[t].pos)
              /\ \A f \in completed :
                    f.rec.paper_id # PaperId(run.cat, th[t].pos)
              /\ \A k \in 1..Len(run.files) :
                    run.files[k].paper_id # PaperId(run.cat, th[t].pos)

\* C23 witness: two workers at the write of their artifacts at the same time
C23_Witness ==
    /\ run.mode = "parallel"
    /\ th[1].step = "save_write" /\ th[2].step = "save_write"
    /\ th[1].pos # th[2].pos

\* C24: a failed release of the remote handle changes nothing: an item whose
\* upload, extraction and persistence succeeded returns success and gets a
\* record with success = true whether the release succeeded or not, the loop
\* goes on to the next index, and at the end every planned position was executed.
C24_ReleaseFailureHarmless ==
    /\ \A t \in Threads :
          (th[t].step = "done" /\ Acquired(th[t])
           /\ Truthy(th[t].json_data) /\ th[t].saved) =>
              /\ th[t].ret
              /\ FileResult(run.cat, th[t]).success
              /\ ~WrapperOutcome(run.cat, th[t]).raised
              /\ run.pc \in {"loop", "collect"}
              /\ t = 0 => NextIndex(run, FileResult(run.cat, th[t])) = run.i + 1
    /\ (RunOver /\ Sequential(run.mode)) => Executed = Planned
    /\ (run.mode = "parallel" /\ run.pc = "returned" /\ run.workers >= 1)
          => Executed = 1..run.n

\* C24 witness: the release of the first item's handle failed, the item still
\* returns success and another document is left for the loop
C24_Witness ==
    /\ th[0].step = "done" /\ Acquired(th[0]) /\ th[0].rel = 1
    /\ ~th[0].deleted /\ th[0].ret
    /\ run.pc = "loop" /\ run.i < run.n

\* the positions of the futures that are done and not yet collected
Uncollected == {f.pos : f \in completed}

\* the positions of the items in execution, in any thread
InExecution == {th[t].pos : t \in {u \in Threads : th[u].step # "idle"}}

\* C25: within one run, in every mode, each item is consumed once: an item in
\* execution has made at most one upload, one extraction request and one
\* artifact write, no two threads hold the same position, and a position that
\* has its record, failed or not, is neither waiting nor in execution again.
C25_ConsumedOnce ==
    run.mode # "none" =>
        /\ \A t \in Threads :
              th[t].ups <= 1 /\ th[t].reqs <= 1 /\ th[t].writes <= 1
        /\ \A t, u \in Threads :
              (t # u /\ th[t].step # "idle" /\ th[u].step # "idle")
                  => th[t].pos # th[u].pos
        /\ \A j, k \in 1..Len(queue) : j # k => queue[j] # queue[k]
        /\ \A k \in 1..Len(queue) :
              queue[k] \notin InExecution \cup Uncollected \cup Executed
        /\ InExecution \cap (Uncollected \cup Executed) = {}
        /\ Uncollected \cap Executed = {}
        /\ Cardinality(Uncollected) = Cardinality(completed)
        /\ Cardinality(Executed) = Len(run.files)

\* C25 witness: a smart-resume run whose first item failed after its upload and
\* has its record, the second item now in execution
C25_Witness ==
    /\ run.mode = "smart"
    /\ Len(run.files) = 1 /\ ~run.files[1].success
    /\ th[0].step = "extract" /\ th[0].ups = 1
    /\ th[0].pos > run.files[1].sequence_id

\* C26: every run over a non-empty category persists its summary exactly once,
\* after the last record was produced: never more than once, not before the
\* loop is over, and once when the run has ended, whatever was processed,
\* failed or skipped.
C26_SummaryExactlyOnce ==
    /\ run.summaries <= 1
    /\ run.summaries = 1 => run.pc = "returned"
    /\ (RunOver /\ run.has_total) => run.summaries = 1

\* C27: for every category the identifier is the category, "-" and the position
\* zero-padded to at least three digits; it is injective over positions >= 1
\* (two positions give the same identifier only when they are equal), and a
\* position >= 1000 keeps all its digits.
C27_AssignInjective ==
    asg.done =>
        /\ (asg.id_p = asg.id_q) <=> (asg.p = asg.q)
        /\ asg.id_p.prefix = asg.cat
        /\ ParsesAsInt(asg.id_p.suffix)
        /\ ParseInt(asg.id_p.suffix) = asg.p
        /\ Len(asg.id_p.suffix) = IF asg.p < Wide THEN 3 ELSE Len(Digits(asg.p))

\* C27 witness: positions 1001 and 1 of one category get "1001" and "001"
C27_Witness ==
    /\ asg.done
    /\ asg.p = Wide + 1 /\ asg.q = 1
    /\ asg.id_p.suffix = <<1, 0, 0, 1>>
    /\ asg.id_q.suffix = <<0, 0, 1>>

\* C28: no item is executed at a position <= 0 and no artifact exists under an
\* identifier built from one, whether the position comes from --sequence-id
\* with --file or from --start-from with simple resume.
C28_NonPositiveRejected ==
    /\ \A t \in Threads : th[t].step # "idle" => th[t].pos >= 1
    /\ \A c \in Cats :
          \A s \in NonPositive(c) \cap DOMAIN outdir[c] : outdir[c][s] = "absent"

\* the positions the run's loop visits
Visited ==
    IF run.mode = "simple"
    THEN run.start_from..(run.start_from + run.n - 1)
    ELSE 1..run.n

\* the positions the run is to execute: all of them in the pool, the planned
\* ones in the sequential modes
Due == IF run.mode = "parallel" THEN 1..run.n ELSE Planned

\* C29: at the end of every run the counts agree with the records: processed
\* and failed are the numbers of records with success true and false, skipped
\* is the number of visited positions the plan excludes, there are processed +
\* failed records, and processed + failed + skipped = total_files.
C29_CountsAgree ==
    (run.mode \in {"full", "smart", "simple", "parallel"}
     /\ run.pc \in {"returned", "raised"} /\ run.has_total)
    => /\ run.processed =
            Cardinality({k \in 1..Len(run.files) : run.files[k].success})
       /\ run.failed =
            Cardinality({k \in 1..Len(run.files) : ~run.files[k].success})
       /\ run.skipped = Cardinality(Visited \ Due)
       /\ Len(run.files) = run.processed + run.failed
       /\ run.processed + run.failed + run.skipped = run.n

\* C30: for every content of a category's output directory the ledger is
\* exactly the set of positions p >= 1 whose artifact PaperId(C, p) exists:
\* each such position is recovered and no file of another name adds one.
C30_LedgerAgreesWithAssigner ==
    runB.scanned =>
        runB.ledger = {p \in 1..MaxPos :
                          outdir[runB.cat][PaperId(runB.cat, p)] # "absent"}

\* C31: a payload that is a JSON value, wrapped in an opening fence (with or
\* without a language tag) and a closing fence, parses to the value the payload
\* alone parses to; and a response whose payload is no JSON value gives None
\* (the item fails), never a payload.
C31_FenceStripping ==
    rp.done =>
        /\ Loads(rp.payload).ok => rp.json_data = Loads(rp.payload)
        /\ ~Loads(rp.payload).ok => rp.outcome = "none" /\ ~rp.json_data.ok

\* C32: a smart-resume or simple-resume run leaves every artifact that existed
\* when it started as it was: such an artifact is never rewritten or removed,
\* and no item is in execution or recorded under its identifier, so no upload,
\* request or write is made for an identifier the run skips.
C32_ResumeKeepsArtifacts ==
    (run.mode \in {"smart", "simple"} /\ run.has_total) =>
        /\ \A s \in DOMAIN startdir :
              startdir[s] # "absent" => outdir[run.cat][s] = startdir[s]
        /\ \A t \in Threads :
              th[t].step # "idle" =>
                  startdir[PaperId(run.cat, th[t].pos)] = "absent"
        /\ \A k \in 1..Len(run.files) :
              startdir[run.files[k].paper_id] = "absent"

\* C32 witness: a smart-resume run over three documents with the artifact of
\* position 2 in place has skipped it and written the artifact of position 3
C32_Witness ==
    /\ run.mode = "smart" /\ run.pc = "returned" /\ run.n = 3
    /\ StartPositions = {2}
    /\ run.skipped = 1
    /\ Executed = {1, 3}
    /\ outdir[run.cat][PaperId(run.cat, 2)] = "complete"
    /\ outdir[run.cat][PaperId(run.cat, 3)] = "complete"

C34_SuccessIndependentOfItems ==
    /\ (run.mode # "none" /\ run.pc \in {"returned", "raised"} /\ run.n >= 1) =>
          /\ run.pc = "returned"
          /\ run.success <=> ~(run.mode = "parallel" /\ run.workers < 1)
    /\ \A c \in Cats :
          section_result[c] = "failed" =>
              \/ inputs[c] = NoDir
              \/ args.parallel /\ args.workers < 1
    /\ (/\ mpc \in {"exit", "crashed"}
        /\ args.cmd = "section" /\ args.section \in Cats /\ env.init_ok
        /\ inputs[args.section] >= 1
        /\ ~(args.parallel /\ args.workers < 1)) => exit_code = 0

\* C35: over an output directory that holds only well-formed identifiers of
\* the category (and possibly the merged archive), a smart-resume run and a
\* simple-resume run from position 1 are the same function of the directory
\* and the item outcomes: each executes exactly the work items (document p,
\* identifier of p) of the positions p without an artifact, and each ends by
\* returning its counts, processed and failed being the numbers of these items
\* that succeeded and failed, skipped the number of the other positions.
C35_ResumeModesEquivalent ==
    (/\ run.mode \in {"smart", "simple"} /\ run.start_from = 1 /\ run.has_total
     /\ \A s \in Glob(startdir) :
           s = MergedFile(run.cat).stem \/ \E p \in 1..MaxPos : s = PaperId(run.cat, p)) =>
        LET todo_items == {p \in 1..run.n : startdir[PaperId(run.cat, p)] = "absent"}
        IN /\ th[0].step # "idle" =>
                 th[0].pos \in todo_items /\ th[0].doc = th[0].pos
           /\ \A k \in 1..Len(run.files) :
                 /\ run.files[k].sequence_id \in todo_items
                 /\ run.files[k].filename = run.files[k].sequence_id
                 /\ run.files[k].paper_id = PaperId(run.cat, run.files[k].sequence_id)
           /\ RunOver =>
                 /\ run.pc = "returned"
                 /\ Executed = todo_items
                 /\ Len(run.files) = Cardinality(todo_items)
                 /\ run.processed =
                       Cardinality({k \in 1..Len(run.files) : run.files[k].success})
                 /\ run.failed =
                       Cardinality({k \in 1..Len(run.files) : ~run.files[k].success})
                 /\ run.skipped = run.n - Cardinality(todo_items)
====
